---- MODULE Spec2Model ----
(***************************************************************************)
(* Model of .github/scripts/automation_script.py: the retrying API-call    *)
(* executor github_api_call and the orchestration of __main__ that drives  *)
(* it.                                                                     *)
(***************************************************************************)
EXTENDS Integers, Sequences, FiniteSets, TLC

VARIABLES
    service,    \* which answers of the remote service are considered
    pc,         \* the call site of the github_api_call in flight
    api,        \* github_api_call: "running", "returned", or the exception raised
    attempt,    \* loop variable of `for attempt in range(max_retries)`
    response,   \* the response handed to the caller (returned, or e.response)
    rl,         \* reset_time / sleep_duration of the latest rate-limit handling
    history,    \* one entry per HTTP request issued by the call in flight
    i,          \* loop variable of the branch-readiness poll
    handling,   \* an except clause of __main__ is running log_event
    done,       \* the orchestration steps that completed
    log_attempts, \* log_event calls made by the except clauses of __main__
    last_sleep, \* seconds of time.sleep between the previous step and this one
    exit_code,  \* <<>> while the process runs, then <<its exit status>>
    log_file,   \* the log on branch 'main': <<>> if absent, else <<its content>>
    fetch,      \* current_log_content, current_log_sha of log_event
    put         \* the body of the PUT request of log_event

call == <<api, attempt, response, rl, history>>

run == <<i, handling, done, log_attempts, last_sleep, exit_code, fetch, put>>

vars == <<service, log_file, pc, call, run>>

\* ---------------------------------------------------------------- constants
max_retries == 5

retries == 10

\* Largest number of whole seconds the clock advances between the two
\* time.time() readings of lines 39 and 40.
MaxTick == 1

\* ------------------------------------------------------- the remote service
Statuses == {200, 204, 304, 403, 404, 409, 422, 500}

\* A body that parses as the JSON document the caller expects.
JsonText == "{...}"

Texts == {"", JsonText, "Not Found", "API Rate Limit Exceeded", "rate limit exceeded"}

\* Value read by int(time.time()) at line 39.
Clock == {1000}

\* X-RateLimit-Reset: absent (<<>>) or one epoch; 900 lies in the past of every
\* clock reading, 1030 in its future.
ResetHeaders == {<<>>, <<900>>, <<1030>>}

\* Every status with every body, every header, every tick of the clock.
AnyService ==
    [responses |-> [status : Statuses, text : Texts],
     resets |-> ResetHeaders,
     ticks |-> 0..MaxTick]

\* base64.b64encode(content.encode('utf-8')).decode('utf-8') and
\* base64.b64decode(...).decode('utf-8'): a text is a sequence of lines.
b64encode(text) == [b64 |-> text]
b64decode(data) == data.b64

\* The blob SHA the contents API reports for a file with this content.
blob_sha(text) == [blob |-> text]

\* The first line log_event writes into a new log.
Header == "# GitHub Automation Log"

\* The log files met on branch 'main' when the script starts: none, an empty
\* one, one that holds the header and an entry of an earlier run.
LogFiles == {<<>>, <<<<>>>>, <<<<Header, "- earlier">>>>}

\* No PUT body was built yet.
NoData == [branch |-> "", content |-> b64encode(<<>>), sha |-> <<>>]

\* The pair (None, None); an optional value is <<>> for None, else <<value>>.
Nothing == [content |-> <<>>, sha |-> <<>>]

\* The contents API keeps the log: it answers the GET of log_event with a
\* document only when the file exists, and accepts the PUT of log_event only
\* with the blob SHA of the stored file (none when there is no file).
Stored(r) ==
    /\ (pc = "log_get" /\ r.status < 400 /\ r.text = JsonText) => log_file # <<>>
    /\ (pc = "log_put" /\ r.status < 400) =>
            put.sha = (IF log_file = <<>> THEN <<>> ELSE <<blob_sha(log_file[1])>>)

\* The answers considered for a whole run of the script: success with and
\* without a JSON body, 404, 409 and 422 with and without a body, and the
\* rate-limited 403 without a reset header.
RunService ==
    [responses |->
        {r \in [status : {200, 304}, text : {"", JsonText}]
                \cup [status : {404, 409, 422}, text : {"", "Not Found"}]
                \cup [status : {403}, text : {"API Rate Limit Exceeded"}] :
            Stored(r)},
     resets |-> {<<>>},
     ticks |-> {0}]

Service == IF service = "any" THEN AnyService ELSE RunService

NoResponse == [status |-> 0, text |-> ""]

\* --------------------------------------------------------- pure expressions
Max(a, b) == IF a >= b THEN a ELSE b

\* str.lower() on the bodies the service sends.
lower(text) ==
    CASE text = "API Rate Limit Exceeded" -> "api rate limit exceeded"
      [] text = "Not Found" -> "not found"
      [] OTHER -> text

\* 'rate limit exceeded' in s
contains_marker(s) == s \in {"api rate limit exceeded", "rate limit exceeded"}

\* Variant: only 200 counts as success.
raise_for_status_not200(status) == status # 200

\* Variant: only server errors raise.
raise_for_status_5xx(status) == 500 <= status /\ status < 600

\* response.raise_for_status(): HTTPError for 4xx and 5xx.
raise_for_status(status) == 400 <= status /\ status < 600

\* The condition of line 37.
is_rate_limited(r) == r.status = 403 /\ contains_marker(lower(r.text))

\* headers.get('X-RateLimit-Reset', time.time() + 60), line 39.
reset_time(header, t39) == IF header = <<>> THEN t39 + 60 ELSE header[1]

\* Variant: the floor of 10 seconds is missing.
rate_limit_sleep_nofloor(reset, t40) == reset - t40 + 1

\* max(reset_time - int(time.time()) + 1, 10), line 40.
rate_limit_sleep(reset, t40) == Max(reset - t40 + 1, 10)

\* Variant: off by one, no attempt is ever the last.
is_last_attempt_late(a) == a = max_retries

\* attempt == max_retries - 1
is_last_attempt(a) == a = max_retries - 1

\* Variant: 409 is retried like a transient error.
reraise_now_404(status, a) == status = 404 \/ is_last_attempt(a)

\* The condition of line 43.
reraise_now(status, a) == status \in {404, 409} \/ is_last_attempt(a)

\* Variant: 2 * attempt.
backoff_linear(a) == 2 * a

\* Variant: the exponent counts from 1.
backoff_shifted(a) == 2 ^ (a + 1)

\* 2 ** attempt, lines 48 and 55.
backoff(a) == 2 ^ a

\* Variant: one iteration too many.
in_range_inclusive(a) == a <= max_retries

\* range(max_retries) still yields a value for the loop variable.
in_range(a) == a < max_retries

\* Bodies that contain "rate limit exceeded" in some letter case.
MarkerTexts == {"API Rate Limit Exceeded", "rate limit exceeded"}

\* The service answered with a rate limit: a 403 whose body holds the marker.
RateLimitResponse(r) == r.status = 403 /\ r.text \in MarkerTexts

\* What one iteration of the loop met and did: the status received (0 with
\* kind "connection_error"), whether the answer was a rate limit, and the
\* argument of time.sleep when the iteration slept.
Entry(r, slept, dur) ==
    [kind |-> "response", status |-> r.status, limited |-> RateLimitResponse(r),
     slept |-> slept, dur |-> dur]

ConnEntry(slept, dur) ==
    [kind |-> "connection_error", status |-> 0, limited |-> FALSE,
     slept |-> slept, dur |-> dur]

\* ------------------------------------------------------ github_api_call
Requesting == api = "running" /\ in_range(attempt)

\* Lines 32-34: the request succeeds and raise_for_status() does not raise.
Return ==
    /\ Requesting
    /\ \E r \in Service.responses :
        /\ ~raise_for_status(r.status)
        /\ response' = r
        /\ history' = Append(history, Entry(r, FALSE, 0))
    /\ api' = "returned"
    /\ log_file' = IF pc = "log_put" THEN <<b64decode(put.content)>> ELSE log_file
    /\ UNCHANGED <<service, pc, attempt, rl, run>>

\* Lines 35-42: HTTPError of a rate-limited 403; sleep until the reset.
RateLimited ==
    /\ Requesting
    /\ \E r \in Service.responses, h \in Service.resets, t39 \in Clock,
          d \in Service.ticks :
        /\ raise_for_status(r.status)
        /\ is_rate_limited(r)
        /\ LET reset == reset_time(h, t39)
               t40 == t39 + d
               dur == rate_limit_sleep(reset, t40)
           IN  /\ rl' = [header |-> h, t39 |-> t39, t40 |-> t40,
                         reset_time |-> reset, sleep_duration |-> dur]
               /\ history' = Append(history, Entry(r, TRUE, dur))
    /\ attempt' = attempt + 1
    /\ UNCHANGED <<service, log_file, pc, api, response, run>>

\* Lines 43-45: 404, 409 or the last attempt; the HTTPError is re-raised.
Reraise ==
    /\ Requesting
    /\ \E r \in Service.responses :
        /\ raise_for_status(r.status)
        /\ ~is_rate_limited(r)
        /\ reraise_now(r.status, attempt)
        /\ response' = r
        /\ history' = Append(history, Entry(r, FALSE, 0))
    /\ api' = "HTTPError"
    /\ UNCHANGED <<service, log_file, pc, attempt, rl, run>>

\* Lines 46-50: any other HTTPError; exponential backoff.
Backoff ==
    /\ Requesting
    /\ \E r \in Service.responses :
        /\ raise_for_status(r.status)
        /\ ~is_rate_limited(r)
        /\ ~reraise_now(r.status, attempt)
        /\ history' = Append(history, Entry(r, TRUE, backoff(attempt)))
    /\ attempt' = attempt + 1
    /\ UNCHANGED <<service, log_file, pc, api, response, rl, run>>

\* Lines 51-54: ConnectionError on the last attempt is re-raised.
ConnReraise ==
    /\ Requesting
    /\ is_last_attempt(attempt)
    /\ response' = NoResponse
    /\ history' = Append(history, ConnEntry(FALSE, 0))
    /\ api' = "ConnectionError"
    /\ UNCHANGED <<service, log_file, pc, attempt, rl, run>>

\* Lines 51-57: ConnectionError before the last attempt; exponential backoff.
ConnBackoff ==
    /\ Requesting
    /\ ~is_last_attempt(attempt)
    /\ history' = Append(history, ConnEntry(TRUE, backoff(attempt)))
    /\ attempt' = attempt + 1
    /\ UNCHANGED <<service, log_file, pc, api, response, rl, run>>

\* Line 58: the loop ran out of values; the generic Exception.
Exhausted ==
    /\ api = "running"
    /\ ~in_range(attempt)
    /\ api' = "Exception"
    /\ UNCHANGED <<service, log_file, pc, attempt, response, rl, history, run>>

\* --------------------------------------------------- one call on its own
NoRateLimit ==
    [header |-> <<>>, t39 |-> 0, t40 |-> 0, reset_time |-> 0, sleep_duration |-> 0]

\* github_api_call entered: lines 27-30.
Entered ==
    /\ api = "running"
    /\ attempt = 0
    /\ response = NoResponse
    /\ rl = NoRateLimit
    /\ history = <<>>

NotStarted ==
    /\ i = 0
    /\ handling = FALSE
    /\ done = {}
    /\ log_attempts = 0
    /\ last_sleep = 0
    /\ exit_code = <<>>
    /\ fetch = Nothing
    /\ put = NoData

\* One call of github_api_call against a service that may answer anything.
Init ==
    /\ service = "any"
    /\ log_file = <<>>
    /\ pc = "call"
    /\ Entered
    /\ NotStarted

Next ==
    \/ Return
    \/ RateLimited
    \/ Reraise
    \/ Backoff
    \/ ConnReraise
    \/ ConnBackoff
    \/ Exhausted

Spec == Init /\ [][Next]_vars

\* =========================================================== __main__
Steps ==
    {"ensure_repository", "resolve_base_sha", "create_branch", "commit_file",
     "open_pr", "merge_pr", "log_success", "delete_branch"}

\* str.splitlines() of a body of at most one line.
splitlines(text) == IF text = "" THEN <<>> ELSE <<text>>

\* response.json() finds the document the caller indexes.
has_json(r) == r.text = JsonText

\* A call of github_api_call from call site `site`.
Call(site) ==
    /\ pc' = site
    /\ api' = "running"
    /\ attempt' = 0
    /\ response' = NoResponse
    /\ rl' = NoRateLimit
    /\ history' = <<>>

\* The process ends with exit status `code`.
Exit(code) ==
    /\ pc' = "exit"
    /\ exit_code' = <<code>>
    /\ i' = 0
    /\ UNCHANGED <<call, handling, done, log_attempts, last_sleep, fetch, put>>

\* The call site is `site` and its github_api_call has ended.
At(site) == pc = site /\ api # "running"

\* Variant: the except clauses lack their exit(1), so that after a failed
\* failure log the script runs off its end with status 0.
Propagate_noexit(type) ==
    IF handling
    THEN Exit(0)
    ELSE IF type = "HTTPError" /\ splitlines(response.text) = <<>>
    THEN Exit(1)
    ELSE /\ handling' = TRUE
         /\ log_attempts' = log_attempts + 1
         /\ Call("log_get")
         /\ i' = 0
         /\ last_sleep' = 0
         /\ UNCHANGED <<done, exit_code, fetch, put>>

\* An exception of class `type` leaves the step that is running.  Inside
\* log_event called by an except clause it is swallowed (lines 305, 314) and
\* exit(1) follows.  Otherwise the except clause of its class builds
\* error_message (lines 300, 309): the first line of the body of an HTTPError,
\* an IndexError that nothing catches when the body has no line, so that the
\* interpreter ends with status 1; then log_event is called.
Propagate(type) ==
    IF handling
    THEN Exit(1)
    ELSE IF type = "HTTPError" /\ splitlines(response.text) = <<>>
    THEN Exit(1)
    ELSE /\ handling' = TRUE
         /\ log_attempts' = log_attempts + 1
         /\ Call("log_get")
         /\ i' = 0
         /\ last_sleep' = 0
         /\ UNCHANGED <<done, exit_code, fetch, put>>

\* A step completed; the next call is made from `site`.  (i is a local of
\* create_repository_if_not_exists and is gone once that function is left.)
Completed(step, site) ==
    /\ done' = done \cup step
    /\ Call(site)
    /\ i' = 0
    /\ last_sleep' = 0
    /\ UNCHANGED <<handling, log_attempts, exit_code, fetch, put>>

\* A step completed; time.sleep(seconds); the next call is made from `site`.
CompletedAfter(step, seconds, site) ==
    /\ done' = done \cup step
    /\ last_sleep' = seconds
    /\ Call(site)
    /\ i' = 0
    /\ UNCHANGED <<handling, log_attempts, exit_code, fetch, put>>

\* Lines 243-250, 80-82: the environment is set; the existence check.
Start ==
    /\ pc = "start"
    /\ Call("exists")
    /\ UNCHANGED run
    /\ UNCHANGED <<service, log_file>>

\* Variant: every HTTPError of the existence check leads to a creation.
RepoChecked_anyerror ==
    /\ At("exists")
    /\ CASE api = "returned" -> Completed({"ensure_repository"}, "base_main")
         [] api = "HTTPError" -> Call("create_repo") /\ UNCHANGED run
         [] OTHER -> Propagate(api)
    /\ UNCHANGED <<service, log_file>>

\* Lines 82-94, 112-113: the result of GET /repos/{owner}/{repo}.
RepoChecked ==
    /\ At("exists")
    /\ CASE api = "returned" -> Completed({"ensure_repository"}, "base_main")
         [] api = "HTTPError" /\ response.status = 404 ->
                Call("create_repo") /\ UNCHANGED run
         [] OTHER -> Propagate(api)
    /\ UNCHANGED <<service, log_file>>

\* Lines 94-103: the result of POST /user/repos; sleep 15, the poll begins.
RepoCreated ==
    /\ At("create_repo")
    /\ IF api = "returned"
       THEN /\ i' = 0
            /\ last_sleep' = 15
            /\ Call("poll_main")
            /\ UNCHANGED <<handling, done, log_attempts, exit_code, fetch, put>>
       ELSE Propagate(api)
    /\ UNCHANGED <<service, log_file>>

\* Variant: 2 * i.
poll_sleep_linear(n) == 2 * n

\* 2**i, line 109.
poll_sleep(n) == 2 ^ n

\* Variant: the last iteration retries too.
PollFailed_extra ==
    IF response.status = 404 /\ i < retries
    THEN /\ i' = i + 1
         /\ last_sleep' = poll_sleep(i)
         /\ Call("poll_main")
         /\ UNCHANGED <<handling, done, log_attempts, exit_code, fetch, put>>
    ELSE Propagate("HTTPError")

\* Variant: the poll does not count its iterations.
PollFailed_forever ==
    IF response.status = 404
    THEN /\ i' = i
         /\ last_sleep' = poll_sleep(i)
         /\ Call("poll_main")
         /\ UNCHANGED <<handling, done, log_attempts, exit_code, fetch, put>>
    ELSE Propagate("HTTPError")

\* Lines 106-111: the except clause of the poll.
PollFailed ==
    IF response.status = 404 /\ i < retries - 1
    THEN /\ i' = i + 1
         /\ last_sleep' = poll_sleep(i)
         /\ Call("poll_main")
         /\ UNCHANGED <<handling, done, log_attempts, exit_code, fetch, put>>
    ELSE Propagate("HTTPError")

\* Lines 119-129 called from line 103: the ref of 'main' during the poll.
PollMain ==
    /\ At("poll_main")
    /\ CASE api = "returned" /\ has_json(response) ->
                Completed({"ensure_repository"}, "base_main")
         [] api = "returned" -> Propagate("JSONDecodeError")
         [] api = "HTTPError" /\ response.status = 404 ->
                Call("poll_master") /\ UNCHANGED run
         [] api = "HTTPError" -> PollFailed
         [] OTHER -> Propagate(api)
    /\ UNCHANGED <<service, log_file>>

\* Lines 125-129 called from line 103: the ref of 'master' during the poll.
PollMaster ==
    /\ At("poll_master")
    /\ CASE api = "returned" /\ has_json(response) ->
                Completed({"ensure_repository"}, "base_main")
         [] api = "returned" -> Propagate("JSONDecodeError")
         [] api = "HTTPError" -> PollFailed
         [] OTHER -> Propagate(api)
    /\ UNCHANGED <<service, log_file>>

\* Variant: every HTTPError of the 'main' call falls back to 'master'.
BaseMain_anyerror ==
    /\ At("base_main")
    /\ CASE api = "returned" /\ has_json(response) ->
                Completed({"resolve_base_sha"}, "create_branch")
         [] api = "returned" -> Propagate("JSONDecodeError")
         [] api = "HTTPError" -> Call("base_master") /\ UNCHANGED run
         [] OTHER -> Propagate(api)
    /\ UNCHANGED <<service, log_file>>

\* Lines 119-129 called from line 251: the ref of 'main'.
BaseMain ==
    /\ At("base_main")
    /\ CASE api = "returned" /\ has_json(response) ->
                Completed({"resolve_base_sha"}, "create_branch")
         [] api = "returned" -> Propagate("JSONDecodeError")
         [] api = "HTTPError" /\ response.status = 404 ->
                Call("base_master") /\ UNCHANGED run
         [] OTHER -> Propagate(api)
    /\ UNCHANGED <<service, log_file>>

\* Lines 125-129 called from line 251: the ref of 'master'.
BaseMaster ==
    /\ At("base_master")
    /\ CASE api = "returned" /\ has_json(response) ->
                Completed({"resolve_base_sha"}, "create_branch")
         [] api = "returned" -> Propagate("JSONDecodeError")
         [] OTHER -> Propagate(api)
    /\ UNCHANGED <<service, log_file>>

\* Lines 139-140, 264-268: the branch is created; its ref is read.
BranchCreated ==
    /\ At("create_branch")
    /\ IF api = "returned"
       THEN Completed({"create_branch"}, "branch_ref")
       ELSE Propagate(api)
    /\ UNCHANGED <<service, log_file>>

\* Lines 268-271, 167: the SHA of the new branch; the file is committed.
BranchRefRead ==
    /\ At("branch_ref")
    /\ CASE api = "returned" /\ has_json(response) ->
                Call("commit") /\ UNCHANGED run
         [] api = "returned" -> Propagate("JSONDecodeError")
         [] OTHER -> Propagate(api)
    /\ UNCHANGED <<service, log_file>>

\* Lines 167-169, 281, 180: the commit; the pull request is opened.
Committed ==
    /\ At("commit")
    /\ CASE api = "returned" /\ has_json(response) ->
                Completed({"commit_file"}, "open_pr")
         [] api = "returned" -> Propagate("JSONDecodeError")
         [] OTHER -> Propagate(api)
    /\ UNCHANGED <<service, log_file>>

\* Lines 180-183, 284-287, 193: the pull request; sleep 5; the merge.
PullRequestCreated ==
    /\ At("open_pr")
    /\ CASE api = "returned" /\ has_json(response) ->
                CompletedAfter({"open_pr"}, 5, "merge")
         [] api = "returned" -> Propagate("JSONDecodeError")
         [] OTHER -> Propagate(api)
    /\ UNCHANGED <<service, log_file>>

\* Variant: the branch is deleted before the success is logged.
Merged_deletes_first ==
    /\ At("merge")
    /\ IF api = "returned"
       THEN Completed({"merge_pr"}, "delete")
       ELSE Propagate(api)
    /\ UNCHANGED <<service, log_file>>

\* Lines 193-194, 290, 211-221, 146: the merge; log_event fetches the log.
Merged ==
    /\ At("merge")
    /\ IF api = "returned"
       THEN Completed({"merge_pr"}, "log_get")
       ELSE Propagate(api)
    /\ UNCHANGED <<service, log_file>>

\* Python's truth value of an optional text: None and '' are false.
truthy(opt) == opt # <<>> /\ opt[1] # <<>>

\* log_entry, line 215: the message of line 290, or of lines 303 and 312.
log_entry == IF handling THEN "- failed" ELSE "- merged"

\* Variant: the log is started anew by every append.
new_log_content_anew(current, entry) == <<Header, entry>>

\* Lines 223-227.
new_log_content(current, entry) ==
    IF truthy(current) THEN current[1] \o <<entry>> ELSE <<Header, entry>>

\* Lines 159-165: the body of the PUT; the key sha only for a current_sha.
put_data(branch_name, content, current_sha) ==
    [branch |-> branch_name,
     content |-> b64encode(content),
     sha |-> IF current_sha # <<>> THEN current_sha ELSE <<>>]

\* The document of a successful GET of the log: its content and blob SHA.
file_json == [content |-> b64encode(log_file[1]), sha |-> blob_sha(log_file[1])]

\* Lines 221-236: log_event with the result of get_file_content.
WriteLog(current_log_content, current_log_sha) ==
    /\ fetch' = [content |-> current_log_content, sha |-> current_log_sha]
    /\ put' = put_data("main",
                       new_log_content(current_log_content, log_entry),
                       current_log_sha)
    /\ Call("log_put")
    /\ UNCHANGED <<i, handling, done, log_attempts, last_sleep, exit_code>>

\* Lines 146-154, 221-230, 167: get_file_content in log_event; a 404 is an
\* absent file; the log is written.
LogFetched ==
    /\ At("log_get")
    /\ CASE api = "returned" /\ has_json(response) ->
                WriteLog(<<b64decode(file_json.content)>>, <<file_json.sha>>)
         [] api = "returned" -> Propagate("JSONDecodeError")
         [] api = "HTTPError" /\ response.status = 404 ->
                WriteLog(<<>>, <<>>)
         [] OTHER -> Propagate(api)
    /\ UNCHANGED <<service, log_file>>

\* Lines 167-169, 237: the log is written.  In the try block the branch is
\* deleted next (lines 293-295, 200); in an except clause exit(1) follows
\* (lines 307, 316).
LogWritten ==
    /\ At("log_put")
    /\ CASE api = "returned" /\ has_json(response) ->
                IF handling
                THEN Exit(1)
                ELSE CompletedAfter({"log_success"}, 10, "delete")
         [] api = "returned" -> Propagate("JSONDecodeError")
         [] OTHER -> Propagate(api)
    /\ UNCHANGED <<service, log_file>>

\* Variant: a 404 of the DELETE is tolerated too.
BranchDeleted_404 ==
    /\ At("delete")
    /\ IF api = "returned"
          \/ (api = "HTTPError" /\ response.status \in {404, 422})
       THEN /\ pc' = "exit"
            /\ done' = done \cup {"delete_branch"}
            /\ exit_code' = <<0>>
            /\ UNCHANGED <<call, i, handling, log_attempts, last_sleep, fetch, put>>
       ELSE Propagate(api)
    /\ UNCHANGED <<service, log_file>>

\* Lines 200-206, 297: delete_branch; a 422 is tolerated; the script ends.
BranchDeleted ==
    /\ At("delete")
    /\ IF api = "returned" \/ (api = "HTTPError" /\ response.status = 422)
       THEN /\ pc' = "exit"
            /\ done' = done \cup {"delete_branch"}
            /\ exit_code' = <<0>>
            /\ UNCHANGED <<call, i, handling, log_attempts, last_sleep, fetch, put>>
       ELSE Propagate(api)
    /\ UNCHANGED <<service, log_file>>

\* The script started with its environment variables set.
InitRun ==
    /\ service = "run"
    /\ log_file \in LogFiles
    /\ pc = "start"
    /\ api = "idle"
    /\ attempt = 0
    /\ response = NoResponse
    /\ rl = NoRateLimit
    /\ history = <<>>
    /\ NotStarted

NextRun ==
    \/ Return
    \/ RateLimited
    \/ Reraise
    \/ Backoff
    \/ ConnReraise
    \/ ConnBackoff
    \/ Exhausted
    \/ Start
    \/ RepoChecked
    \/ RepoCreated
    \/ PollMain
    \/ PollMaster
    \/ BaseMain
    \/ BaseMaster
    \/ BranchCreated
    \/ BranchRefRead
    \/ Committed
    \/ PullRequestCreated
    \/ Merged
    \/ LogFetched
    \/ LogWritten
    \/ BranchDeleted

SpecRun == InitRun /\ [][NextRun]_vars


\* ===================================================== properties of a call
Last == history[Len(history)]

Is2xx(status) == 200 <= status /\ status <= 299

Is4xx5xx(status) == 400 <= status /\ status <= 599

GotResponse(k) == history[k].kind = "response"

\* Entry k is a failure that was retried with exponential backoff.
Transient(k) == history[k].slept /\ ~history[k].limited

\* Entries 1..n slept 2^0 .. 2^(n-1) seconds.
DoublingSleeps(n) ==
    \A k \in 1..n : history[k].slept /\ history[k].dur = 2 ^ (k - 1)

\* C1: a call issues at most 5 requests whatever the outcomes; every retried
\* attempt, rate-limited or transient, uses up one attempt, so that 5
\* rate-limited responses in a row make exactly 5 requests and no 6th.
C1_AtMostFiveRequests ==
    /\ Len(history) <= 5
    /\ api = "running" => attempt = Len(history)
    /\ (Len(history) >= 5 /\ \A k \in 1..5 : history[k].limited)
          => Len(history) = 5 /\ (api # "running" => api = "Exception")

C1_Witness ==
    /\ api = "Exception"
    /\ Len(history) = 5
    /\ \A k \in 1..5 : history[k].limited /\ history[k].status = 403

\* C2: a 2xx response to any attempt is returned at once: it is the last
\* request of the call and no sleep follows it; a 2xx on the first attempt
\* means one request and no sleep.
C2_SuccessReturnsImmediately ==
    \A k \in 1..Len(history) :
        (GotResponse(k) /\ Is2xx(history[k].status))
            => /\ k = Len(history)
               /\ ~history[k].slept
               /\ api = "returned"
               /\ response.status = history[k].status

C2_Witness ==
    /\ api = "returned"
    /\ Len(history) = 3
    /\ Last.status = 204
    /\ history[1].slept /\ history[2].slept

\* C3: a 404 or 409 on any attempt is raised at once as the HTTP error of
\* that response: no sleep for it and no request after it.
C3_NotFoundConflictRaise ==
    \A k \in 1..Len(history) :
        (GotResponse(k) /\ history[k].status \in {404, 409})
            => /\ k = Len(history)
               /\ ~history[k].slept
               /\ api = "HTTPError"
               /\ response.status = history[k].status

C3_Witness ==
    /\ Len(history) = 1
    /\ history[1].status = 409
    /\ api = "HTTPError"

\* The call so far saw the same status s on every attempt, never as a rate
\* limit.
Persistent(s) ==
    /\ history # <<>>
    /\ \A k \in 1..Len(history) :
          GotResponse(k) /\ history[k].status = s /\ ~history[k].limited

\* 5 requests, sleeps of 1, 2, 4, 8 seconds after the first four, the HTTP
\* error raised on the 5th without a sleep.
FiveAttemptsThenRaise(s) ==
    /\ DoublingSleeps(IF Len(history) < 5 THEN Len(history) ELSE 4)
    /\ Len(history) < 5 => api = "running"
    /\ Len(history) >= 5 =>
          /\ Len(history) = 5
          /\ ~history[5].slept
          /\ api = "HTTPError"
          /\ response.status = s

\* C4 as stated: every status that is persistently non-2xx, other than 404,
\* 409 and a rate-limited 403, leads to 5 requests with sleeps 1, 2, 4, 8 and
\* the HTTP error on the 5th.
C4_AsStated ==
    \A s \in Statuses :
        (~Is2xx(s) /\ s \notin {404, 409} /\ Persistent(s))
            => FiveAttemptsThenRaise(s)

\* C4: every 4xx or 5xx status other than 404, 409 and a rate-limited 403
\* that is received on every attempt leads to exactly 5 requests, sleeps of
\* 1, 2, 4 and 8 seconds after attempts 1 to 4, and the HTTP error raised on
\* the 5th attempt without a sleep.
C4_PersistentErrorFiveAttempts ==
    \A s \in Statuses :
        (Is4xx5xx(s) /\ s \notin {404, 409} /\ Persistent(s))
            => FiveAttemptsThenRaise(s)

C4_Witness ==
    /\ Persistent(500)
    /\ Len(history) = 5
    /\ api = "HTTPError"

\* The latest attempt received a 403 whose body holds the marker.
RateLimitCase ==
    /\ history # <<>>
    /\ GotResponse(Len(history))
    /\ Last.limited

\* C5 as stated: the rate-limit sleep is max(T - now + 1, 10) for the reset
\* epoch T of the header, at least 10 seconds, and 61 seconds when the header
\* is absent.
C5_AsStated ==
    RateLimitCase =>
        /\ Last.slept
        /\ Last.dur >= 10
        /\ rl.header # <<>> => Last.dur = Max(rl.header[1] - rl.t40 + 1, 10)
        /\ rl.header = <<>> => Last.dur = 61

\* C5: after a 403 with the marker in any letter case the call sleeps
\* max(T - now + 1, 10) seconds, now being the clock when the sleep is
\* computed and T the header's epoch or, without the header, 60 seconds past
\* the clock reading taken just before; so at least 10 seconds, and without
\* the header 61 seconds less the whole seconds between the two readings.
C5_RateLimitSleep ==
    RateLimitCase =>
        /\ Last.slept
        /\ Last.dur >= 10
        /\ rl.header # <<>> => Last.dur = Max(rl.header[1] - rl.t40 + 1, 10)
        /\ rl.header = <<>> => Last.dur = Max(61 - (rl.t40 - rl.t39), 10)

C5_Witness ==
    /\ RateLimitCase
    /\ rl.header = <<>>
    /\ rl.t40 = rl.t39 + 1
    /\ Last.dur = 60

\* The first n attempts ended in connection errors.
ConnPrefix(n) ==
    /\ n <= Len(history)
    /\ \A k \in 1..n : history[k].kind = "connection_error"

\* C6: n connection errors (1..4) followed by a 2xx: sleeps 2^0..2^(n-1)
\* between the attempts, the 2xx is returned and is the last request; 5
\* connection errors: exactly 5 requests and the connection error of the 5th
\* is raised.
C6_ConnectionErrors ==
    /\ \A n \in 1..4 :
          (/\ ConnPrefix(n)
           /\ Len(history) > n
           /\ GotResponse(n + 1)
           /\ Is2xx(history[n + 1].status))
            => /\ Len(history) = n + 1
               /\ DoublingSleeps(n)
               /\ ~history[n + 1].slept
               /\ api = "returned"
               /\ response.status = history[n + 1].status
    /\ ConnPrefix(5)
            => /\ Len(history) = 5
               /\ DoublingSleeps(4)
               /\ ~history[5].slept
               /\ api = "ConnectionError"

C6_Witness ==
    /\ ConnPrefix(4)
    /\ Len(history) = 5
    /\ api = "returned"
    /\ Is2xx(response.status)

\* C7: a failed call surfaces the error of its final attempt: an HTTP error
\* with the final response whenever the final attempt got a response; the
\* generic exception after the loop is raised in no call in which some
\* attempt got a response.
C7_FinalErrorSurfaced ==
    /\ (api \in {"HTTPError", "ConnectionError", "Exception"}
        /\ GotResponse(Len(history)))
            => api = "HTTPError" /\ response.status = Last.status
    /\ api = "Exception" => \A k \in 1..Len(history) : ~GotResponse(k)

\* C8 as stated: the sleep after a transient failure is 2^n for the number n
\* of earlier transient failures of the call, rate-limited attempts not
\* counted.
C8_AsStated ==
    \A k \in 1..Len(history) :
        Transient(k) =>
            history[k].dur = 2 ^ Cardinality({j \in 1..(k - 1) : Transient(j)})

\* C8: the sleep after a transient failure is 2^a for the number a of earlier
\* attempts of the call of any kind, rate-limited ones included.
C8_BackoffCountsEveryAttempt ==
    \A k \in 1..Len(history) :
        Transient(k) => history[k].dur = 2 ^ (k - 1)

C8_Witness ==
    /\ Len(history) >= 3
    /\ history[1].limited
    /\ Transient(2) /\ history[2].status = 500 /\ history[2].dur = 2
    /\ Transient(3) /\ history[3].status = 500 /\ history[3].dur = 4

\* C9 as stated: only a 2xx response is ever returned to the caller.
C9_AsStated == api = "returned" => Is2xx(response.status)

\* C9: a response is returned only when its status is no 4xx or 5xx; every
\* 4xx and 5xx response is retried after a sleep or raised, never returned.
C9_OnlyNonErrorReturned ==
    /\ api = "returned" => ~Is4xx5xx(response.status)
    /\ \A k \in 1..Len(history) :
          (GotResponse(k) /\ Is4xx5xx(history[k].status))
              => \/ history[k].slept
                 \/ k = Len(history) /\ api = "HTTPError"

C9_Witness ==
    /\ api = "returned"
    /\ response.status = 304
    /\ Len(history) = 1

\* ====================================================== properties of a run
\* C10: exit code 0 only when every orchestration step completed; when a
\* step fails, whatever the status and the body (an empty one included), one
\* append of a failure entry to the log is attempted and the exit code is 1.
C10_ExitContract ==
    pc = "exit" =>
        /\ exit_code = <<0>> => done = Steps
        /\ done # Steps => exit_code = <<1>> /\ log_attempts = 1

\* The sites of the two calls of log_event.
LogSites == {"log_get", "log_put"}

\* C11: once a step has failed and the failure log is being written, every
\* outcome of the log append (returned, HTTP error, connection error,
\* exhausted retries) is swallowed and leads to exit code 1.
C11_FailureLogOutcomeIgnored ==
    /\ [](handling =>
            /\ pc \in LogSites \cup {"exit"}
            /\ pc = "exit" => exit_code = <<1>>)
    /\ [][(handling /\ pc \in LogSites /\ api # "running" /\ pc' # pc)
            => \/ pc' = "exit" /\ exit_code' = <<1>> /\ handling'
               \/ pc = "log_get" /\ pc' = "log_put" /\ handling']_vars

C11_Witness ==
    /\ pc = "exit"
    /\ handling
    /\ api = "Exception"
    /\ exit_code = <<1>>

\* The place of each call site in the fixed order of the remote operations.
Rank(site) ==
    CASE site = "exists" -> 1
      [] site = "create_repo" -> 2
      [] site \in {"poll_main", "poll_master"} -> 3
      [] site \in {"base_main", "base_master"} -> 4
      [] site = "create_branch" -> 5
      [] site = "branch_ref" -> 6
      [] site = "commit" -> 7
      [] site = "open_pr" -> 8
      [] site = "merge" -> 9
      [] site \in LogSites -> 10
      [] site = "delete" -> 11
      [] OTHER -> 0

\* The steps that have completed when the operation of rank n is issued.
DoneBefore(n) ==
    (IF n > 3 THEN {"ensure_repository"} ELSE {})
    \cup (IF n > 4 THEN {"resolve_base_sha"} ELSE {})
    \cup (IF n > 5 THEN {"create_branch"} ELSE {})
    \cup (IF n > 7 THEN {"commit_file"} ELSE {})
    \cup (IF n > 8 THEN {"open_pr"} ELSE {})
    \cup (IF n > 9 THEN {"merge_pr"} ELSE {})
    \cup (IF n > 10 THEN {"log_success"} ELSE {})

\* The call that just ended succeeded, or ended in a 404 its caller recovers.
EndedWell ==
    \/ api = "returned"
    \/ /\ api = "HTTPError"
       /\ response.status = 404
       /\ pc \in {"exists", "poll_main", "poll_master", "base_main", "log_get"}

\* C12: the remote operations are issued in the fixed order existence check,
\* (create repository, readiness poll), base SHA, create branch, read branch
\* ref, commit, open PR, merge, success log, delete branch; each only after
\* all earlier ones succeeded; after the first propagated failure only the
\* failure-log append follows; and when all succeed the exit code is 0.
C12_FixedOrder ==
    /\ []((pc \notin {"start", "exit"} /\ ~handling)
            => done = DoneBefore(Rank(pc)))
    /\ [](handling => pc \in LogSites \cup {"exit"})
    /\ []((pc = "exit" /\ ~handling /\ done = Steps) => exit_code = <<0>>)
    /\ [][(pc' # pc /\ pc # "start" /\ pc' # "exit" /\ ~handling')
            => /\ EndedWell
               /\ \/ Rank(pc') \in {Rank(pc), Rank(pc) + 1}
                  \/ pc = "exists" /\ pc' = "base_main"]_vars
    /\ [][(pc = "start" /\ pc' # pc) => pc' = "exists"]_vars
    /\ [][handling => handling']_vars

C12_Witness ==
    /\ pc = "exit"
    /\ exit_code = <<0>>
    /\ done = Steps
    /\ api = "returned"

\* C13: a DELETE that fails with 422 still ends the run with exit code 0;
\* a DELETE that fails with anything else (404, 409, connection error,
\* exhausted retries) propagates and the run ends with exit code 1, although
\* the pull request is merged and the success entry logged.
C13_DeleteTolerates422Only ==
    /\ [][(At("delete") /\ pc' # pc)
            => IF api = "returned"
                  \/ (api = "HTTPError" /\ response.status = 422)
               THEN pc' = "exit" /\ exit_code' = <<0>>
               ELSE /\ exit_code' # <<0>>
                    /\ \/ pc' = "exit" /\ exit_code' = <<1>>
                       \/ pc' = "log_get" /\ handling']_vars
    /\ []((pc = "exit" /\ "delete_branch" \notin done) => exit_code = <<1>>)
    /\ []((pc = "exit" /\ exit_code = <<0>> /\ api # "returned")
            => api = "HTTPError" /\ response.status = 422)

C13_Witness ==
    /\ pc = "exit"
    /\ exit_code = <<1>>
    /\ done = Steps \ {"delete_branch"}
    /\ handling

\* C19: a call never sleeps after its final HTTP attempt: every sleep is
\* followed by another request of the same call.
C19_NoSleepAfterFinalAttempt ==
    (api # "running" /\ history # <<>>) => ~Last.slept

PollSites == {"poll_main", "poll_master"}

\* C15: POST /user/repos is issued exactly when the existence check ended in
\* a 404; a successful check is followed by the base-SHA resolution with no
\* creation and no readiness poll; any other error of the check propagates
\* without a creation.
C15_CreateIffNotFound ==
    /\ [][(pc' = "create_repo" /\ pc # "create_repo")
            => At("exists") /\ api = "HTTPError" /\ response.status = 404]_vars
    /\ [][(At("exists") /\ pc' # pc)
            => CASE api = "HTTPError" /\ response.status = 404 ->
                        pc' = "create_repo"
                 [] api = "returned" -> pc' = "base_main" /\ ~handling'
                 [] OTHER -> pc' \in {"log_get", "exit"}
                             /\ (pc' = "log_get" => handling')]_vars
    /\ [][(pc' \in PollSites /\ pc \notin PollSites)
            => At("create_repo") /\ api = "returned"]_vars

C15_Witness ==
    /\ pc = "create_repo"
    /\ api = "returned"
    /\ ~handling

\* The failure leaves the try block: the failure log begins or the process
\* ends, and no step of the sequence is issued any more.
Aborted == pc' \in {"log_get", "exit"} /\ (pc' = "log_get" => handling')

\* C16: after a creation the poll resolves the default-branch SHA at most 10
\* times (k = 0..9); it stops at the first success; a 404 in iteration k < 9
\* is followed by a sleep of 2^k seconds and iteration k + 1; a 404 in the
\* 10th iteration and any other HTTP error in any iteration propagate.
C16_ReadinessPoll ==
    /\ [](pc \in PollSites =>
            /\ i \in 0..9
            /\ last_sleep = IF i = 0 THEN 15 ELSE 2 ^ (i - 1)
            /\ ~handling)
    /\ [][(pc \in PollSites /\ api = "returned" /\ has_json(response)
           /\ pc' # pc)
            => pc' = "base_main" /\ ~handling']_vars
    /\ [][(At("poll_master") /\ api = "HTTPError" /\ response.status = 404
           /\ pc' # pc)
            => IF i < 9
               THEN pc' = "poll_main" /\ i' = i + 1 /\ last_sleep' = 2 ^ i
               ELSE Aborted]_vars
    /\ [][(pc \in PollSites /\ api \notin {"running", "returned"}
           /\ ~(api = "HTTPError" /\ response.status = 404)
           /\ pc' # pc)
            => Aborted]_vars
    /\ [][(pc' = "poll_main" /\ pc # "poll_main")
            => \/ At("create_repo") /\ api = "returned" /\ i' = 0
               \/ At("poll_master") /\ i' = i + 1]_vars

C16_Witness ==
    /\ At("poll_master")
    /\ i = 9
    /\ last_sleep = 256
    /\ api = "HTTPError"
    /\ response.status = 404

\* The call sites of get_main_branch_sha: the ref of 'main', of 'master'.
MainSites == {"base_main", "poll_main"}
MasterSites == {"base_master", "poll_master"}

\* C17: 'master' is queried only after the 'main' call of the same
\* resolution failed with 404; a successful 'main' call and a 'main' call
\* that failed otherwise are never followed by a 'master' request, the
\* latter propagates; a failed 'master' call (404 included) propagates to the
\* caller: the except clause of the poll, or the end of the try block.
C17_MainThenMaster ==
    /\ [][(pc' \in MasterSites /\ pc' # pc)
            => /\ pc = (IF pc' = "base_master" THEN "base_main" ELSE "poll_main")
               /\ api = "HTTPError"
               /\ response.status = 404]_vars
    /\ [][(pc \in MainSites /\ api = "returned" /\ pc' # pc)
            => pc' \notin MasterSites]_vars
    /\ [][(pc \in MainSites /\ api \notin {"running", "returned"}
           /\ ~(api = "HTTPError" /\ response.status = 404)
           /\ pc' # pc)
            => Aborted]_vars
    /\ [][(At("base_master") /\ api # "returned" /\ pc' # pc) => Aborted]_vars
    /\ [][(At("poll_master") /\ api # "returned" /\ pc' # pc)
            => \/ Aborted
               \/ /\ api = "HTTPError" /\ response.status = 404 /\ i < 9
                  /\ pc' = "poll_main" /\ i' = i + 1]_vars

C17_Witness ==
    /\ At("base_master")
    /\ api = "HTTPError"
    /\ response.status = 404
    /\ Len(history) = 1

\* Sequence s begins sequence t.
IsPrefix(s, t) == Len(s) <= Len(t) /\ SubSeq(t, 1, Len(s)) = s

\* The step that follows the fetch of log_event.
AfterFetch == At("log_get") /\ (pc' # pc \/ api' # api)

\* The fetch of log_event ended in 404; it returned the document of the file.
FetchAbsent == api = "HTTPError" /\ response.status = 404
FetchFound == api = "returned" /\ has_json(response)

\* C18: a log append is one fetch followed by one write on branch 'main'.
\* After a 404 the write carries the header and the new entry and no blob
\* SHA; after a fetch of non-empty content it carries the fetched blob SHA
\* and the fetched content followed by the new entry; every other failure
\* of the fetch propagates and no write is issued.  The stored log changes
\* only by a successful write of log_event, which leaves a content that the
\* earlier content is a prefix of.
C18_LogAppend ==
    /\ [](pc = "log_put" => put.branch = "main")
    /\ [][(pc' = "log_put" /\ pc # "log_put")
            => At("log_get") /\ (FetchAbsent \/ FetchFound)]_vars
    /\ [][(pc = "log_put" /\ pc' # pc)
            => /\ api # "running"
               /\ pc' \in {"delete", "exit", "log_get"}
               /\ put' = put]_vars
    /\ [][(AfterFetch /\ FetchAbsent)
            => /\ pc' = "log_put"
               /\ fetch' = Nothing
               /\ put'.sha = <<>>
               /\ b64decode(put'.content) = <<Header, log_entry>>]_vars
    /\ [][(AfterFetch /\ FetchFound /\ log_file[1] # <<>>)
            => /\ pc' = "log_put"
               /\ fetch' = [content |-> log_file, sha |-> <<blob_sha(log_file[1])>>]
               /\ put'.sha = fetch'.sha
               /\ b64decode(put'.content) = fetch'.content[1] \o <<log_entry>>]_vars
    /\ [][(AfterFetch /\ ~FetchAbsent /\ ~FetchFound)
            => /\ pc' # "log_put"
               /\ put' = put
               /\ log_file' = log_file
               /\ \/ pc' = "exit" /\ exit_code' = <<1>>
                  \/ pc' = "log_get" /\ ~handling /\ handling']_vars
    /\ [][log_file' # log_file
            => /\ pc = "log_put" /\ api' = "returned"
               /\ log_file' = <<b64decode(put.content)>>
               /\ log_file # <<>> => IsPrefix(log_file[1], log_file'[1])]_vars

\* Two appends of one run succeeded on a log of an earlier run: the success
\* entry, then the failure entry after the DELETE failed.
C18_Witness ==
    /\ pc = "exit"
    /\ log_file = <<<<Header, "- earlier", "- merged", "- failed">>>>
    /\ fetch.content = <<<<Header, "- earlier", "- merged">>>>
    /\ put.sha = <<blob_sha(<<Header, "- earlier", "- merged">>)>>

\* The script is one thread that takes its next step whenever it has one:
\* every request is answered or fails, every time.sleep is finite.
SpecRunFair == SpecRun /\ WF_vars(NextRun)

\* The iterations of the call in flight that slept.
Sleeps == {k \in DOMAIN history : history[k].slept}

\* C14: a call of the executor issues at most 5 requests and sleeps at most
\* 5 times, and whenever one is running it returns or raises; the whole run
\* reaches its exit, with status 0 or 1.
C14_Termination ==
    /\ [](Len(history) <= 5 /\ Cardinality(Sleeps) <= 5)
    /\ [](api = "running" => <>(api # "running"))
    /\ <>(pc = "exit" /\ exit_code \in {<<0>>, <<1>>})

\* The run ended after a call of the failure log that used 5 requests and
\* 5 sleeps.
C14_Witness ==
    /\ pc = "exit"
    /\ exit_code = <<1>>
    /\ handling
    /\ Len(history) = 5
    /\ Cardinality(Sleeps) = 5

====
